---- MODULE Spec2Model ----
(***************************************************************************)
(* Model of api/app.py: the leaderboard gateway (submit_score) and the     *)
(* streaming chat relay (chat and its inner generator generate).           *)
(*                                                                         *)
(* External collaborators (the database client, the LLM provider client)  *)
(* are environments: each call they receive is recorded, and each call    *)
(* either returns a value drawn from a small set or raises an exception   *)
(* drawn from a small set.                                                 *)
(***************************************************************************)
EXTENDS Integers, Sequences, FiniteSets, TLC

(* ---------------------------- bounds ---------------------------------- *)

\* number of leaderboard submissions in flight
NumSubmissions == 2
\* longest message_history of a chat request
MaxHistory == 2
\* most chunks the provider emits on one stream
MaxChunks == 3

(* ------------------------- Python values ------------------------------ *)

\* Optional values: None, or a present value
None == [present |-> FALSE]
Some(v) == [present |-> TRUE, val |-> v]

\* sequences over S of length at most n
SeqUpTo(S, n) == UNION {[1..k -> S] : k \in 0..n}

\* exceptions the collaborators raise: a type and the constructor's message
ErrorMsgs == {"", "boom"}
Errors == [type : {"Exception"}, msg : ErrorMsgs]

\* str(e) of an exception built from one message argument
StrException(e) == e.msg

\* fastapi.HTTPException(status_code=.., detail=..) as raised at lines 84, 88, 131
HTTPException(status_code, detail) ==
    [type |-> "HTTPException", status_code |-> status_code, detail |-> detail]

\* str(e) of an HTTPException built with keyword arguments only: the
\* framework's __str__ gives "<status>: <detail>" where it defines one, and
\* Exception.__str__ of empty args gives "" where it does not.
StrHTTPException(e) == {ToString(e.status_code) \o ": " \o e.detail, ""}

\* the outcomes of str(e) for any exception e
Str(e) == IF e.type = "HTTPException" THEN StrHTTPException(e) ELSE {StrException(e)}

\* what the caller receives
NoResponse == [status |-> 0, detail |-> "", rows |-> <<>>]
ErrorResponse(h) == [status |-> h.status_code, detail |-> h.detail, rows |-> <<>>]
JsonResponse(rows) == [status |-> 200, detail |-> "", rows |-> rows]

(* ======================= Leaderboard gateway ========================== *)

Submissions == 1..NumSubmissions
LeaderboardEntry == {[initials |-> "AAA", score |-> 100], [initials |-> "BOB", score |-> 0]}

\* datetime.now() as a tick, and its isoformat()
Times == {1}
IsoFormat(t) == "2025-01-01T00:00:0" \o ToString(t)

\* rows the external procedure returns: opaque to the handler
Row1 == [initials |-> "AAA", score |-> 100, rank |-> 1]
Row2 == [initials |-> "ZED", score |-> 50, rank |-> 2]
\* result.data: None, or a list of rows
RpcData == {None, Some(<<>>), Some(<<Row1, Row2>>), Some(<<Row2, Row1>>)}

VARIABLES
    lb_pc,       \* per submission: "idle", "insert", "rpc", "done"
    entry,       \* per submission: the LeaderboardEntry of the request
    dbCalls,     \* calls received by the database client, in order
    table,       \* rows of the external 'leaderboard' table, in insert order
    lb_failure,  \* per submission: the database call that raised, and what it raised
    lb_response  \* per submission: what the caller received

lbVars == <<lb_pc, entry, dbCalls, table, lb_failure, lb_response>>

VARIABLES
    chat_pc,       \* "idle", "handler", "started", "streaming", "closed", "aborted", "done"
    request,       \* the ChatRequest being served
    createCalls,   \* calls of client.chat.completions.create, in order
    consumed,      \* chunks taken from the provider's stream, in order
    writes,        \* values the generator yielded to the response, in order
    outClosed,     \* the generator returned: the response body is complete
    chat_failure,  \* the exception raised while serving the request
    chat_response  \* status and detail the caller received

chatVars == <<chat_pc, request, createCalls, consumed, writes, outClosed,
              chat_failure, chat_response>>


\* fixed window of the rank query (window_size)
window_size == 3

\* the row passed to supabase.table('leaderboard').insert(..)
InsertRow(e, t) ==
    [initials |-> e.initials, score |-> e.score, created_at |-> IsoFormat(t)]

\* the parameters passed to supabase.rpc('get_leaderboard_window', ..)
RpcParams(e) ==
    [p_initials |-> e.initials, p_score |-> e.score, p_window_size |-> window_size]

\* Python truthiness of result.data
Truthy(data) == data.present /\ Len(data.val) > 0

\* variant: the rows are returned in the opposite order
ResponseBodyReversed(data) ==
    IF ~Truthy(data) THEN <<>>
    ELSE [i \in 1..Len(data.val) |-> data.val[Len(data.val) + 1 - i]]

\* lines 76-80: [] when result.data is falsy, result.data otherwise
ResponseBody(data) == IF ~Truthy(data) THEN <<>> ELSE data.val

\* lines 82-84: the inner handler turns e into an HTTPException
InnerHandler(e) == {HTTPException(500, d) : d \in Str(e)}

\* lines 86-88: the outer handler turns whatever reaches it, an HTTPException
\* of the inner handler included, into an HTTPException
OuterHandler(e) == {HTTPException(500, d) : d \in Str(e)}

InitLB ==
    /\ lb_pc = [r \in Submissions |-> "idle"]
    /\ entry = [r \in Submissions |-> [initials |-> "AAA", score |-> 0]]
    /\ dbCalls = <<>>
    /\ table = <<>>
    /\ lb_failure = [r \in Submissions |-> None]
    /\ lb_response = [r \in Submissions |-> NoResponse]

\* variant: the handler goes to the rank query without inserting
SubmitQueriesFirst(r, e) ==
    /\ lb_pc[r] = "idle"
    /\ lb_pc' = [lb_pc EXCEPT ![r] = "rpc"]
    /\ entry' = [entry EXCEPT ![r] = e]
    /\ UNCHANGED <<dbCalls, table, lb_failure, lb_response>>
    /\ UNCHANGED chatVars

\* POST /api/leaderboard arrives with a validated body
Submit(r, e) ==
    /\ lb_pc[r] = "idle"
    /\ lb_pc' = [lb_pc EXCEPT ![r] = "insert"]
    /\ entry' = [entry EXCEPT ![r] = e]
    /\ UNCHANGED <<dbCalls, table, lb_failure, lb_response>>
    /\ UNCHANGED chatVars

\* lines 60-64 return: the row is in the table (by: the submission, kept for
\* the properties only)
InsertOk(r, t) ==
    /\ lb_pc[r] = "insert"
    /\ dbCalls' = Append(dbCalls, [op |-> "insert", by |-> r, args |-> InsertRow(entry[r], t)])
    /\ table' = Append(table, [by |-> r, row |-> InsertRow(entry[r], t)])
    /\ lb_pc' = [lb_pc EXCEPT ![r] = "rpc"]
    /\ UNCHANGED <<entry, lb_failure, lb_response>>
    /\ UNCHANGED chatVars

\* variant: a failed insert is swallowed and the handler goes on to the query
InsertFailContinue(r, e, t, committed) ==
    /\ lb_pc[r] = "insert"
    /\ dbCalls' = Append(dbCalls, [op |-> "insert", by |-> r, args |-> InsertRow(entry[r], t)])
    /\ table' = IF committed
                THEN Append(table, [by |-> r, row |-> InsertRow(entry[r], t)])
                ELSE table
    /\ lb_failure' = [lb_failure EXCEPT ![r] = Some([step |-> "insert", exc |-> e])]
    /\ lb_pc' = [lb_pc EXCEPT ![r] = "rpc"]
    /\ UNCHANGED <<entry, lb_response>>
    /\ UNCHANGED chatVars

\* lines 60-64 raise e (the row may or may not have reached the table): the
\* outer handler answers, lines 86-88
InsertFail(r, e, t, committed) ==
    /\ lb_pc[r] = "insert"
    /\ dbCalls' = Append(dbCalls, [op |-> "insert", by |-> r, args |-> InsertRow(entry[r], t)])
    /\ table' = IF committed
                THEN Append(table, [by |-> r, row |-> InsertRow(entry[r], t)])
                ELSE table
    /\ lb_failure' = [lb_failure EXCEPT ![r] = Some([step |-> "insert", exc |-> e])]
    /\ \E h \in OuterHandler(e) :
          lb_response' = [lb_response EXCEPT ![r] = ErrorResponse(h)]
    /\ lb_pc' = [lb_pc EXCEPT ![r] = "done"]
    /\ UNCHANGED entry
    /\ UNCHANGED chatVars

\* lines 70-80: the procedure returns data
RpcOk(r, data) ==
    /\ lb_pc[r] = "rpc"
    /\ dbCalls' = Append(dbCalls, [op |-> "rpc", by |-> r, args |-> RpcParams(entry[r]),
                                   result |-> data])
    /\ lb_response' = [lb_response EXCEPT ![r] = JsonResponse(ResponseBody(data))]
    /\ lb_pc' = [lb_pc EXCEPT ![r] = "done"]
    /\ UNCHANGED <<entry, table, lb_failure>>
    /\ UNCHANGED chatVars

\* lines 70-74 raise e: the inner handler raises an HTTPException (82-84),
\* which the outer handler catches in turn (86-88)
RpcFail(r, e) ==
    /\ lb_pc[r] = "rpc"
    /\ dbCalls' = Append(dbCalls, [op |-> "rpc", by |-> r, args |-> RpcParams(entry[r]),
                                   result |-> None])
    /\ lb_failure' = [lb_failure EXCEPT ![r] = Some([step |-> "rpc", exc |-> e])]
    /\ \E h1 \in InnerHandler(e) : \E h2 \in OuterHandler(h1) :
          lb_response' = [lb_response EXCEPT ![r] = ErrorResponse(h2)]
    /\ lb_pc' = [lb_pc EXCEPT ![r] = "done"]
    /\ UNCHANGED <<entry, table>>
    /\ UNCHANGED chatVars

NextLB ==
    \/ \E r \in Submissions, e \in LeaderboardEntry : Submit(r, e)
    \/ \E r \in Submissions, t \in Times : InsertOk(r, t)
    \/ \E r \in Submissions, e \in Errors, t \in Times, c \in BOOLEAN : InsertFail(r, e, t, c)
    \/ \E r \in Submissions, data \in RpcData : RpcOk(r, data)
    \/ \E r \in Submissions, e \in Errors : RpcFail(r, e)



(* ============================ Chat relay ============================== *)

DevMsgs == {"sys", ""}
UserMsgs == {"hello", "sys"}
Models == {"gpt-4.1-mini", "gpt-4o"}
\* history entries: the roles are whatever the caller sent
HistEntries == {[role |-> "assistant", content |-> "a1"],
                [role |-> "developer", content |-> "override"]}
\* message_history: null, or a list (the default is the empty list)
Histories == {None} \cup {Some(h) : h \in SeqUpTo(HistEntries, MaxHistory)}

ChatRequest ==
    [developer_message : DevMsgs, user_message : UserMsgs,
     model : Models, message_history : Histories]

\* chunk.choices[0].delta.content of a provider chunk: None or a text
Contents == {None, Some(""), Some("Hel"), Some("lo")}
\* provider chunks: a list of choices, each with a delta
Chunks == {[choices |-> <<>>]} \cup
          {[choices |-> <<[delta |-> [content |-> c]]>>] : c \in Contents}

IndexError == [type |-> "IndexError", msg |-> "list index out of range"]

\* truthiness of request.message_history
HistoryGiven(h) == h.present /\ Len(h.val) > 0

\* variant: the history is appended after the current user message
BuildMessagesHistoryLast(req) ==
    LET messages == <<[role |-> "developer", content |-> req.developer_message],
                      [role |-> "user", content |-> req.user_message]>>
    IN  IF HistoryGiven(req.message_history)
        THEN messages \o req.message_history.val
        ELSE messages

\* lines 102-111: the messages list
BuildMessages(req) ==
    LET messages == <<[role |-> "developer", content |-> req.developer_message]>>
        extended == IF HistoryGiven(req.message_history)
                    THEN messages \o req.message_history.val
                    ELSE messages
    IN  Append(extended, [role |-> "user", content |-> req.user_message])

\* variant: the test is truthiness ("if content:"), so empty texts are dropped
YieldedTruthy(chunk) ==
    IF chunk.choices[1].delta.content # None /\ chunk.choices[1].delta.content.val # ""
    THEN <<chunk.choices[1].delta.content.val>>
    ELSE <<>>

\* variant: no test, an absent content is yielded as the empty text
YieldedAlways(chunk) ==
    IF chunk.choices[1].delta.content # None
    THEN <<chunk.choices[1].delta.content.val>>
    ELSE <<"">>

\* lines 122-123: what one chunk makes the generator yield
Yielded(chunk) ==
    IF chunk.choices[1].delta.content # None
    THEN <<chunk.choices[1].delta.content.val>>
    ELSE <<>>

\* lines 128-131: the handler of chat
ChatHandler(e) == {HTTPException(500, d) : d \in Str(e)}

\* line 126: StreamingResponse(generate(), media_type="text/plain")
StreamingResponse == [status |-> 200, detail |-> "", rows |-> <<>>]

InitChat ==
    /\ chat_pc = "idle"
    /\ request = [developer_message |-> "", user_message |-> "hello",
                  model |-> "gpt-4.1-mini", message_history |-> Some(<<>>)]
    /\ createCalls = <<>>
    /\ consumed = <<>>
    /\ writes = <<>>
    /\ outClosed = FALSE
    /\ chat_failure = None
    /\ chat_response = NoResponse

\* POST /api/chat arrives with a validated body
Receive(req) ==
    /\ chat_pc = "idle"
    /\ chat_pc' = "handler"
    /\ request' = req
    /\ UNCHANGED <<createCalls, consumed, writes, outClosed, chat_failure, chat_response>>
    /\ UNCHANGED lbVars

\* line 97 raises e inside the try block: lines 128-131 answer
ClientInitFail(e) ==
    /\ chat_pc = "handler"
    /\ chat_failure' = Some(e)
    /\ \E h \in ChatHandler(e) : chat_response' = ErrorResponse(h)
    /\ chat_pc' = "done"
    /\ UNCHANGED <<request, createCalls, consumed, writes, outClosed>>
    /\ UNCHANGED lbVars

\* lines 97-126: the client is built and the handler returns the response
\* object; no line of generate has run yet and the try block is left
ReturnStreaming ==
    /\ chat_pc = "handler"
    /\ chat_response' = StreamingResponse
    /\ chat_pc' = "started"
    /\ UNCHANGED <<request, createCalls, consumed, writes, outClosed, chat_failure>>
    /\ UNCHANGED lbVars

\* lines 102-118, first resumption of generate: the call returns a stream
CreateOk ==
    /\ chat_pc = "started"
    /\ createCalls' = Append(createCalls,
          [model |-> request.model, messages |-> BuildMessages(request), stream |-> TRUE])
    /\ chat_pc' = "streaming"
    /\ UNCHANGED <<request, consumed, writes, outClosed, chat_failure, chat_response>>
    /\ UNCHANGED lbVars

\* variant: a failed call is attempted again
CreateFailRetry(e) ==
    /\ chat_pc = "started"
    /\ Len(createCalls) < 3
    /\ createCalls' = Append(createCalls,
          [model |-> request.model, messages |-> BuildMessages(request), stream |-> TRUE])
    /\ UNCHANGED <<chat_pc, request, consumed, writes, outClosed, chat_failure, chat_response>>
    /\ UNCHANGED lbVars

\* lines 102-118: the call raises e, in the generator, outside chat's try
CreateFail(e) ==
    /\ chat_pc = "started"
    /\ createCalls' = Append(createCalls,
          [model |-> request.model, messages |-> BuildMessages(request), stream |-> TRUE])
    /\ chat_failure' = Some(e)
    /\ chat_pc' = "aborted"
    /\ UNCHANGED <<request, consumed, writes, outClosed, chat_response>>
    /\ UNCHANGED lbVars

\* lines 121-123: one chunk arrives; a chunk with no choice raises IndexError
NextChunk(chunk) ==
    /\ chat_pc = "streaming"
    /\ Len(consumed) < MaxChunks
    /\ consumed' = Append(consumed, chunk)
    /\ IF chunk.choices = <<>>
       THEN /\ chat_failure' = Some(IndexError)
            /\ chat_pc' = "aborted"
            /\ UNCHANGED writes
       ELSE /\ writes' = writes \o Yielded(chunk)
            /\ UNCHANGED <<chat_failure, chat_pc>>
    /\ UNCHANGED <<request, createCalls, outClosed, chat_response>>
    /\ UNCHANGED lbVars

\* line 121: the stream is exhausted and generate returns
StreamEnd ==
    /\ chat_pc = "streaming"
    /\ outClosed' = TRUE
    /\ chat_pc' = "closed"
    /\ UNCHANGED <<request, createCalls, consumed, writes, chat_failure, chat_response>>
    /\ UNCHANGED lbVars

\* line 121: iterating the stream raises e
StreamFail(e) ==
    /\ chat_pc = "streaming"
    /\ chat_failure' = Some(e)
    /\ chat_pc' = "aborted"
    /\ UNCHANGED <<request, createCalls, consumed, writes, outClosed, chat_response>>
    /\ UNCHANGED lbVars

NextChat ==
    \/ \E req \in ChatRequest : Receive(req)
    \/ \E e \in Errors : ClientInitFail(e)
    \/ ReturnStreaming
    \/ CreateOk
    \/ \E e \in Errors : CreateFail(e)
    \/ \E chunk \in Chunks : NextChunk(chunk)
    \/ StreamEnd
    \/ \E e \in Errors : StreamFail(e)


(* ======================== Both handlers =============================== *)

vars == <<lbVars, chatVars>>

Init == InitLB /\ InitChat

\* Both handlers interleaved. The inputs are one submission and a few
\* requests, chunks and errors, so that the product of the two handlers'
\* states stays small; every operation of both handlers is present.
OneEntry == [initials |-> "AAA", score |-> 100]
FewData == {None, Some(<<Row1, Row2>>)}
FewErrors == {[type |-> "Exception", msg |-> "boom"]}
FewRequests == {r \in ChatRequest : /\ r.developer_message = "sys"
                                    /\ r.user_message = "hello"
                                    /\ r.model = "gpt-4.1-mini"
                                    /\ r.message_history \in {None, Some(<<>>)}}
FewChunks == {c \in Chunks : c.choices # <<>> =>
                 c.choices[1].delta.content \in {None, Some("Hel")}}

Next ==
    \/ Submit(1, OneEntry)
    \/ \E t \in Times : InsertOk(1, t)
    \/ \E e \in FewErrors, t \in Times, c \in BOOLEAN : InsertFail(1, e, t, c)
    \/ \E data \in FewData : RpcOk(1, data)
    \/ \E e \in FewErrors : RpcFail(1, e)
    \/ \E req \in FewRequests : Receive(req)
    \/ \E e \in FewErrors : ClientInitFail(e)
    \/ ReturnStreaming
    \/ CreateOk
    \/ \E e \in FewErrors : CreateFail(e)
    \/ \E chunk \in FewChunks : NextChunk(chunk)
    \/ StreamEnd
    \/ \E e \in FewErrors : StreamFail(e)

Spec == Init /\ [][Next]_vars

\* the leaderboard gateway alone, and the chat relay alone: the handlers share
\* no state
SpecLB == Init /\ [][NextLB]_vars

SpecChat == Init /\ [][NextChat]_vars


(* ============================ Properties ============================== *)

\* indices of the database calls of kind op made for submission r
CallsOf(r, op) == {i \in 1..Len(dbCalls) : dbCalls[i].by = r /\ dbCalls[i].op = op}
\* indices of the table rows inserted for submission r
RowsOf(r) == {i \in 1..Len(table) : table[i].by = r}
\* a provider chunk that carries a text (possibly the empty text)
HasText(chunk) == chunk.choices # <<>> /\ chunk.choices[1].delta.content.present
\* the history of the request as a list (null counts as empty)
HistoryOf(req) ==
    IF req.message_history.present THEN req.message_history.val ELSE <<>>

\* C1: the messages passed to the provider's streaming call are the developer
\* entry, then the history entries in their original order, then the user
\* entry, whatever the history contains (null, empty, any roles).
C1_MessageOrder ==
    \A k \in 1..Len(createCalls) :
        LET m == createCalls[k].messages
            h == HistoryOf(request)
        IN  /\ Len(m) = Len(h) + 2
            /\ m[1] = [role |-> "developer", content |-> request.developer_message]
            /\ m[Len(m)] = [role |-> "user", content |-> request.user_message]
            /\ \A i \in 1..Len(h) : m[i + 1] = h[i]

\* C1 witness: a call was made for a request whose history holds two
\* different entries, the first of them carrying the developer role.
C1_Witness ==
    /\ Len(createCalls) = 1
    /\ request.message_history =
          Some(<<[role |-> "developer", content |-> "override"],
                 [role |-> "assistant", content |-> "a1"]>>)

\* C2: every failure while serving a chat request (building the client, the
\* streaming call, iterating the stream) reaches the caller as a 500 whose
\* detail is the failure's textual description.
C2_FailureIs500 ==
    chat_failure.present =>
        /\ chat_response.status = 500
        /\ chat_response.detail = StrException(chat_failure.val)

\* C3: the writes to the caller are the texts of the provider's textual
\* fragments, one write per fragment, in arrival order, and the output is
\* closed once the provider's stream has ended.
C3_WritesInOrder ==
    LET textual == SelectSeq(consumed, HasText)
    IN  /\ writes = [i \in 1..Len(textual) |-> textual[i].choices[1].delta.content.val]
        /\ (chat_pc = "closed" => outClosed)

\* C3 witness: a stream of three textual fragments ended without error.
C3_Witness ==
    /\ chat_pc = "closed"
    /\ writes = <<"Hel", "lo", "Hel">>

\* C4, as claimed: no write to the caller is empty.
C4_NoEmptyWrite == \A i \in 1..Len(writes) : writes[i] # ""

\* C4, amended: a delta with absent content produces no write (there are as
\* many writes as deltas with a content), and a write is empty only when the
\* provider sent the empty text.
C4_AbsentContentDropped ==
    /\ Len(writes) = Cardinality({j \in 1..Len(consumed) : HasText(consumed[j])})
    /\ \A i \in 1..Len(writes) :
          writes[i] = "" =>
             \E j \in 1..Len(consumed) :
                /\ consumed[j].choices # <<>>
                /\ consumed[j].choices[1].delta.content = Some("")

\* C4 witness: a delta with no content arrived between two textual deltas.
C4_Witness ==
    /\ Len(consumed) = 3
    /\ HasText(consumed[1])
    /\ consumed[2].choices # <<>> /\ consumed[2].choices[1].delta.content = None
    /\ HasText(consumed[3])
    /\ writes = <<"Hel", "lo">>

\* C5: when the rank query of a submission is issued, exactly one insert has
\* been issued for that submission, earlier, with its initials and score,
\* exactly one row of the table is its row, and the query's parameters are
\* (initials, score, 3).
C5_InsertThenQuery ==
    \A j \in 1..Len(dbCalls) :
        dbCalls[j].op = "rpc" =>
            LET r == dbCalls[j].by
            IN  /\ dbCalls[j].args = [p_initials |-> entry[r].initials,
                                      p_score |-> entry[r].score,
                                      p_window_size |-> 3]
                /\ Cardinality(CallsOf(r, "insert")) = 1
                /\ \A i \in CallsOf(r, "insert") :
                      /\ i < j
                      /\ dbCalls[i].args.initials = entry[r].initials
                      /\ dbCalls[i].args.score = entry[r].score
                /\ Cardinality(RowsOf(r)) = 1
                /\ \A i \in RowsOf(r) :
                      /\ table[i].row.initials = entry[r].initials
                      /\ table[i].row.score = entry[r].score

\* C5 witness: {AAA, 100} was submitted; its query followed its insert, with
\* another submission's insert in between.
C5_Witness ==
    /\ Len(dbCalls) >= 3
    /\ entry[1] = [initials |-> "AAA", score |-> 100]
    /\ dbCalls[1].op = "insert" /\ dbCalls[1].by = 1
    /\ dbCalls[2].op = "insert" /\ dbCalls[2].by = 2
    /\ dbCalls[3].op = "rpc" /\ dbCalls[3].by = 1
    /\ dbCalls[3].args = [p_initials |-> "AAA", p_score |-> 100, p_window_size |-> 3]

\* C6, as claimed: after a failed insert no rank query is issued for the
\* submission and the caller receives a 500 with a non-empty detail.
C6_NonEmptyDetail ==
    \A r \in Submissions :
        (lb_failure[r].present /\ lb_failure[r].val.step = "insert") =>
            /\ CallsOf(r, "rpc") = {}
            /\ lb_response[r].status = 500
            /\ lb_response[r].detail # ""

\* C6, amended: after a failed insert the handler is finished, no rank query
\* is issued for the submission, and the caller receives a 500 whose detail
\* is the failure's textual description (empty when that is empty).
C6_InsertFailure ==
    \A r \in Submissions :
        (lb_failure[r].present /\ lb_failure[r].val.step = "insert") =>
            /\ lb_pc[r] = "done"
            /\ CallsOf(r, "rpc") = {}
            /\ lb_response[r].status = 500
            /\ lb_response[r].detail = StrException(lb_failure[r].val.exc)

\* C6 witness: an insert failed with a message and the caller has it.
C6_Witness ==
    \E r \in Submissions :
        /\ lb_failure[r] = Some([step |-> "insert", exc |-> [type |-> "Exception", msg |-> "boom"]])
        /\ lb_response[r].status = 500
        /\ lb_response[r].detail = "boom"

\* C7: a failure of either database call reaches the caller as a 500 whose
\* detail is the underlying failure's textual description.
C7_DetailIsUnderlyingMessage ==
    \A r \in Submissions :
        lb_failure[r].present =>
            /\ lb_response[r].status = 500
            /\ lb_response[r].detail = StrException(lb_failure[r].val.exc)

\* C9: on every outcome a chat request makes at most one streaming call and
\* a submission issues at most one insert and at most one rank query.
C9_SingleAttempt ==
    /\ Len(createCalls) <= 1
    /\ \A r \in Submissions :
          /\ Cardinality(CallsOf(r, "insert")) <= 1
          /\ Cardinality(CallsOf(r, "rpc")) <= 1

\* C9 witness: the streaming call failed and the rank query failed, each
\* after a single attempt.
C9_Witness ==
    /\ chat_pc = "aborted" /\ consumed = <<>> /\ Len(createCalls) = 1
    /\ lb_pc[1] = "done"
    /\ lb_failure[1].present /\ lb_failure[1].val.step = "rpc"
    /\ Len(dbCalls) = 2

\* C10: when both steps succeed the response is the rows the procedure
\* returned, same rows in the same order, or the empty list when it returned
\* no data or an empty list.
C10_RowsVerbatim ==
    \A j \in 1..Len(dbCalls) :
        (dbCalls[j].op = "rpc" /\ ~lb_failure[dbCalls[j].by].present) =>
            LET r == dbCalls[j].by
                data == dbCalls[j].result
            IN  /\ lb_response[r].status = 200
                /\ (data = None => lb_response[r].rows = <<>>)
                /\ (data # None => lb_response[r].rows = data.val)

\* C10 witness: the procedure returned two rows, the lower rank first, and
\* the caller received them in that order.
C10_Witness ==
    \E r \in Submissions :
        /\ lb_pc[r] = "done"
        /\ lb_response[r].status = 200
        /\ lb_response[r].rows = <<Row2, Row1>>

====
